---- MODULE Spec2Model ----
(***************************************************************************)
(* RecoPhyNC: recognising classes of phylogenetic networks.                *)
(*                                                                         *)
(* The repository holds two implementations of the network class:          *)
(*   - the library  src/Phylo.py  with  src/properties/*.py ("Phylo"),     *)
(*   - the single-file script  src/RecoPhyNC.py  ("Reco").                 *)
(* The property classes are the same in both; _contract and                *)
(* _update_stable differ.  The variable impl says which one runs.          *)
(*                                                                         *)
(* A run is  PhyloNetwork(verbose); open(file)  = _contract,               *)
(* _update_infos, _update_stable;  then any sequence of property get().    *)
(* The graph N is the edge set of a networkx DiGraph built with add_edge   *)
(* only, so its vertices are exactly the end points of its edges.          *)
(***************************************************************************)
EXTENDS Integers, Sequences, FiniteSets, TLC

\* Bounds of the model: vertex identifiers 1..MaxNodes, at most MaxEdges arcs
\* in the input file.
MaxNodes == 5
MaxEdges == 6

Vertices == 1..MaxNodes
\* The input files of the model are the DAGs over Vertices: every DAG is
\* isomorphic to one whose arcs go from a smaller to a larger identifier.
CandEdges == {e \in Vertices \X Vertices : e[1] < e[2]}
InputGraphs == {E \in SUBSET CandEdges : Cardinality(E) <= MaxEdges}

VARIABLES
  impl,           \* "Phylo" (src/Phylo.py) or "Reco" (src/RecoPhyNC.py)
  verbose,        \* PhyloNetwork.verbose
  pc,             \* position in open(): "contract", "infos", "stable", "sweep", "ready", "failed"
  err,            \* the exception that ended the run, "" if none
  N,              \* PhyloNetwork.N: set of arcs <<u, v>>
  X,              \* the work list of the running loop (_contract, _update_stable)
  root,           \* PhyloNetwork.root (0 = None)
  reticulations,  \* PhyloNetwork.reticulations
  leaves,         \* PhyloNetwork.leaves
  dominators,     \* PhyloNetwork.dominators (src/Phylo.py): vertex -> immediate dominator
  stability,      \* PhyloNetwork.stability: a dict, here a function on its keys
  stability_tree, \* PhyloNetwork.stability_tree (src/RecoPhyNC.py): set of arcs
  queue,          \* the Queue X of _update_stable (src/RecoPhyNC.py)
  spread,         \* defaultdict(int) of _update_stable: a missing key reads 0
  reach,          \* defaultdict(set) of _update_stable: a missing key reads {}
  childs_seen,    \* defaultdict(int) of _update_stable
  put_count,      \* how often X.put was called with each vertex in _update_stable
  taken_off,      \* the vertices X.get has returned in _update_stable
  properties,     \* PhyloNetwork.properties: short name -> val of the property object
  vectors,        \* the argument X of pareto_mins (kept under SpecPareto only)
  result,         \* the list pareto_mins returns
  calls           \* the graphs _contract was called on, in order (kept under SpecContract
                  \* only, <<>> elsewhere): what a caller of _contract can compare N with

netvars == <<N, root, reticulations, leaves>>
stabvars == <<dominators, stability, stability_tree>>
sweepvars == <<queue, spread, reach, childs_seen, put_count, taken_off>>
propvars == <<properties>>
paretovars == <<vectors, result>>
vars == <<impl, verbose, pc, err, X, netvars, stabvars, sweepvars, propvars, calls,
         paretovars>>

---------------------------------------------------------------------------
\* networkx.DiGraph queries

nodes(E) == {e[1] : e \in E} \cup {e[2] : e \in E}
successors(E, v) == {e[2] : e \in {f \in E : f[1] = v}}
predecessors(E, v) == {e[1] : e \in {f \in E : f[2] = v}}
in_degree(E, v) == Cardinality(predecessors(E, v))
out_degree(E, v) == Cardinality(successors(E, v))
remove_node(E, v) == {e \in E : e[1] # v /\ e[2] # v}

\* the choices of "next(predecessors_iter(l))" for the vertices l of L: the
\* first parent a dict iteration gives is any parent
RECURSIVE first_parents(_, _)
first_parents(E, L) ==
  IF L = {} THEN {<<>>}
  ELSE LET l == CHOOSE x \in L : TRUE
       IN  {[k \in DOMAIN f \cup {l} |-> IF k = l THEN p ELSE f[k]] :
              <<f, p>> \in first_parents(E, L \ {l}) \X predecessors(E, l)}

\* PhyloNetwork.is_reticulation
is_reticulation(E, v) == in_degree(E, v) > 1

\* PhyloNetwork.node_type
node_type(E, u) ==
  LET ideg == in_degree(E, u) IN
  IF ideg = 1 THEN (IF out_degree(E, u) = 0 THEN "leaf" ELSE "tree")
  ELSE IF ideg > 1 THEN "reticulation"
  ELSE "root"

---------------------------------------------------------------------------
\* _contract

\* the test of _contract: in_degree(v) == out_degree(v) == 1
is_trivial(E, v) == in_degree(E, v) = 1 /\ out_degree(E, v) = 1

\* the body of the if: add_edge(u, w); remove_node(v)
contract_vertex(E, v) ==
  LET u == CHOOSE p \in predecessors(E, v) : TRUE
      w == CHOOSE s \in successors(E, v) : TRUE
  IN  remove_node(E \cup {<<u, w>>}, v)

\* src/Phylo.py: one pass over the vertex list taken before the loop,
\* "for v in self.N.nodes()"; X holds the vertices still to visit.
Phylo_contract_step ==
  /\ pc = "contract" /\ impl = "Phylo" /\ X # {}
  /\ \E v \in X :
       /\ N' = IF is_trivial(N, v) THEN contract_vertex(N, v) ELSE N
       /\ X' = X \ {v}
  /\ UNCHANGED <<impl, verbose, calls, paretovars, pc, err, root, reticulations, leaves, stabvars, sweepvars, propvars>>

\* src/RecoPhyNC.py: work list; a contraction puts u and w back on it.
Reco_contract_step ==
  /\ pc = "contract" /\ impl = "Reco" /\ X # {}
  /\ \E v \in X :
       IF is_trivial(N, v)
       THEN LET u == CHOOSE p \in predecessors(N, v) : TRUE
                w == CHOOSE s \in successors(N, v) : TRUE
            IN  /\ N' = contract_vertex(N, v)
                /\ X' = (X \ {v}) \cup {u, w}
       ELSE /\ N' = N
            /\ X' = X \ {v}
  /\ UNCHANGED <<impl, verbose, calls, paretovars, pc, err, root, reticulations, leaves, stabvars, sweepvars, propvars>>

\* the loop of _contract is over: open() goes on to _update_infos
contract_return ==
  /\ pc = "contract" /\ X = {}
  /\ pc' = "infos"
  /\ UNCHANGED <<impl, verbose, calls, paretovars, err, X, netvars, stabvars, sweepvars, propvars>>

---------------------------------------------------------------------------
\* _update_infos

\* a set as a list, in some order
RECURSIVE some_order(_)
some_order(S) ==
  IF S = {} THEN <<>>
  ELSE LET x == CHOOSE y \in S : TRUE IN <<x>> \o some_order(S \ {x})

\* the orders in which "for i in self.N" can visit the vertices, one for
\* every vertex i and every set S of vertices visited before i: what a turn of
\* the loop does depends on the vertices visited before it, not on their order
visiting_orders(V) ==
  IF V = {} THEN {<<>>}
  ELSE {some_order(p[1]) \o <<p[2]>> \o some_order(V \ (p[1] \cup {p[2]}))
        : p \in {q \in (SUBSET V) \X V : q[2] \notin q[1]}}

\* the loop without the test for a second vertex of in-degree 0
RECURSIVE update_infos_loop_last_root(_, _, _, _, _)
update_infos_loop_last_root(E, order, r, retic, lvs) ==
  IF order = <<>>
  THEN [err |-> IF r = 0 THEN "DegreeError" ELSE "",
        root |-> r, reticulations |-> retic, leaves |-> lvs]
  ELSE LET i == Head(order)
           indeg == in_degree(E, i)
           outdeg == out_degree(E, i)
       IN  IF \/ indeg = 1 /\ outdeg = 1
              \/ indeg > 1 /\ outdeg > 1
           THEN [err |-> "DegreeError",
                 root |-> r, reticulations |-> retic, leaves |-> lvs]
           ELSE update_infos_loop_last_root(E, Tail(order),
                  IF indeg = 0 THEN i ELSE r,
                  IF indeg > 1 THEN retic \cup {i} ELSE retic,
                  IF outdeg = 0 THEN lvs \cup {i} ELSE lvs)

\* the loop "for i in self.N" over the vertices in the given order, and the
\* test after it: r is the root found so far (0 = None), retic and lvs the
\* sets filled so far.  The result is the exception raised ("" if none) and
\* the fields as the method leaves them.
RECURSIVE update_infos_loop(_, _, _, _, _)
update_infos_loop(E, order, r, retic, lvs) ==
  IF order = <<>>
  THEN [err |-> IF r = 0 THEN "DegreeError" ELSE "",
        root |-> r, reticulations |-> retic, leaves |-> lvs]
  ELSE LET i == Head(order)
           indeg == in_degree(E, i)
           outdeg == out_degree(E, i)
       IN  IF \/ indeg = 1 /\ outdeg = 1
              \/ indeg > 1 /\ outdeg > 1
              \/ indeg = 0 /\ r # 0
           THEN [err |-> "DegreeError",
                 root |-> r, reticulations |-> retic, leaves |-> lvs]
           ELSE update_infos_loop(E, Tail(order),
                  IF indeg = 0 THEN i ELSE r,
                  IF indeg > 1 THEN retic \cup {i} ELSE retic,
                  IF outdeg = 0 THEN lvs \cup {i} ELSE lvs)

update_infos ==
  /\ pc = "infos"
  /\ \E order \in visiting_orders(nodes(N)) :
       LET out == update_infos_loop(N, order, 0, reticulations, leaves)
       IN  /\ pc' = IF out.err = "" THEN "stable" ELSE "failed"
           /\ err' = out.err
           /\ root' = out.root
           /\ reticulations' = out.reticulations
           /\ leaves' = out.leaves
  /\ UNCHANGED <<impl, verbose, calls, paretovars, N, X, stabvars, sweepvars, propvars>>

---------------------------------------------------------------------------
\* _update_stable, src/Phylo.py

\* the vertices reachable from the set S along arcs of E
RECURSIVE descendants(_, _)
descendants(E, S) ==
  LET T == S \cup {e[2] : e \in {f \in E : f[1] \in S}}
  IN  IF T = S THEN S ELSE descendants(E, T)

\* d dominates v: every path from r to v passes through d
dominates(E, r, d, v) ==
  d = v \/ v \notin descendants(remove_node(E, d), {r} \ {d})

\* networkx.immediate_dominators(G, start): the closest strict dominator of
\* every vertex reachable from start, and start for start itself
immediate_dominators(E, r) ==
  [v \in descendants(E, {r}) |->
     IF v = r THEN r
     ELSE LET sdom == {d \in nodes(E) \ {v} : dominates(E, r, d, v)}
          IN  CHOOSE d \in sdom : \A o \in sdom : dominates(E, r, o, d)]

\* all orders in which a set can be iterated
RECURSIVE orders(_)
orders(S) ==
  IF S = {} THEN {<<>>}
  ELSE UNION {{<<x>> \o t : t \in orders(S \ {x})} : x \in S}

\* a variant of the loop below that does not put v back on the stack: the
\* walk stops at the immediate dominator of each leaf
RECURSIVE Phylo_stable_loop_no_append(_, _, _)
Phylo_stable_loop_no_append(dom, st, stack) ==
  IF stack = <<>> THEN st
  ELSE LET u == stack[Len(stack)]
           rest == SubSeq(stack, 1, Len(stack) - 1)
           v == dom[u]
       IN  IF v \notin DOMAIN st
           THEN Phylo_stable_loop_no_append(dom, st @@ (v :> u), rest)
           ELSE Phylo_stable_loop_no_append(dom, st, rest)

\* the while loop of _update_stable: X.pop() takes the last element
RECURSIVE Phylo_stable_loop(_, _, _)
Phylo_stable_loop(dom, st, stack) ==
  IF stack = <<>> THEN st
  ELSE LET u == stack[Len(stack)]
           rest == SubSeq(stack, 1, Len(stack) - 1)
           v == dom[u]
       IN  IF v \notin DOMAIN st
           THEN Phylo_stable_loop(dom, st @@ (v :> u), Append(rest, v))
           ELSE Phylo_stable_loop(dom, st, rest)

\* "X = list(self.leaves.copy())": the order of a set is not fixed
Phylo_update_stable ==
  /\ pc = "stable" /\ impl = "Phylo"
  /\ dominators' = immediate_dominators(N, root)
  /\ \E order \in orders(leaves) :
       stability' = Phylo_stable_loop(dominators', [u \in leaves |-> u], order)
  /\ pc' = "ready"
  /\ UNCHANGED <<impl, verbose, calls, paretovars, err, X, netvars, stability_tree, sweepvars, propvars>>

---------------------------------------------------------------------------
\* _update_stable, src/RecoPhyNC.py

\* "self.stability.update((next(predecessors(l)), l) for l in self.leaves)":
\* the pairs are written in the order of the leaves, a later one replaces an
\* earlier one with the same key; par[l] is the parent next() gives for l
RECURSIVE Reco_parents_of_leaves(_, _, _)
Reco_parents_of_leaves(st, order, par) ==
  IF order = <<>> THEN st
  ELSE LET l == Head(order)
           p == par[l]
           st2 == [k \in DOMAIN st \cup {p} |-> IF k = p THEN l ELSE st[k]]
       IN  Reco_parents_of_leaves(st2, Tail(order), par)

\* the start of _update_stable up to the while loop; "map(X.put, self.leaves)"
\* fills the queue in the same order of the leaves
Reco_update_stable_begin ==
  /\ pc = "stable" /\ impl = "Reco"
  /\ \E order \in orders(leaves) :
     \E par \in first_parents(N, leaves) :
       /\ stability' = Reco_parents_of_leaves(stability, order, par)
       /\ queue' = order
  /\ spread' = [v \in DOMAIN spread |-> 0]
  /\ reach' = [v \in DOMAIN reach |-> {}]
  /\ childs_seen' = [v \in DOMAIN childs_seen |-> 0]
  /\ put_count' = [v \in DOMAIN put_count |-> IF v \in leaves THEN 1 ELSE 0]
  /\ taken_off' = {}
  /\ pc' = "sweep"
  /\ UNCHANGED <<impl, verbose, calls, paretovars, err, X, netvars, dominators, stability_tree, propvars>>

\* a variant of the first loop below that does not count v as a seen child
Reco_spread_up_uncounted(E, v, sp, re, cs) ==
  LET P == predecessors(E, v)
      give == re[v] \cup {v}
      sp1 == [j \in DOMAIN sp |-> IF j \in re[v] THEN sp[j] - 1 ELSE sp[j]]
  IN  [spread |-> [j \in DOMAIN sp |->
                     sp1[j] + Cardinality({p \in P : j \in give /\ j \notin re[p]})],
       reach |-> [p \in DOMAIN re |-> IF p \in P THEN re[p] \cup give ELSE re[p]],
       childs_seen |-> cs]

\* first loop over the parents of v: count v as a seen child and hand the
\* reach of v, and v itself, to each parent
Reco_spread_up(E, v, sp, re, cs) ==
  LET P == predecessors(E, v)
      give == re[v] \cup {v}
      sp1 == [j \in DOMAIN sp |-> IF j \in re[v] THEN sp[j] - 1 ELSE sp[j]]
  IN  [spread |-> [j \in DOMAIN sp |->
                     sp1[j] + Cardinality({p \in P : j \in give /\ j \notin re[p]})],
       reach |-> [p \in DOMAIN re |-> IF p \in P THEN re[p] \cup give ELSE re[p]],
       childs_seen |-> [p \in DOMAIN cs |-> IF p \in P THEN cs[p] + 1 ELSE cs[p]]]

\* a variant of the second loop below without the test
\* "childs_seen[p] == self.N.out_degree(p)": every parent of v is queued
RECURSIVE Reco_close_parents_untested(_, _, _)
Reco_close_parents_untested(E, ps, s) ==
  IF ps = <<>> THEN {s}
  ELSE LET p == Head(ps)
           p_stable == {i \in s.reach[p] : s.spread[i] = 1}
           known == p_stable \cap DOMAIN s.stability
           sts == IF known = {} THEN {s.stability}
                  ELSE {[k \in DOMAIN s.stability \cup {p} |->
                           IF k = p THEN s.stability[x] ELSE s.stability[k]]
                        : x \in known}
       IN  UNION {Reco_close_parents_untested(E, Tail(ps),
                    [s EXCEPT !.queue = Append(@, p),
                              !.stability_tree = @ \cup {<<p, x>> : x \in p_stable},
                              !.stability = st2,
                              !.reach = [@ EXCEPT ![p] = @ \ p_stable],
                              !.spread = [j \in DOMAIN @ |->
                                            IF j \in p_stable THEN 0 ELSE @[j]]])
                  : st2 \in sts}

\* second loop over the parents of v, in the order ps: a parent whose children
\* are all seen is queued and made stable on what only it can reach.
\* s is the record of stability, stability_tree, queue, spread, reach and
\* childs_seen.  "for x in p_stable: if x in self.stability: self.stability[p]
\* = self.stability[x]" leaves the value of the last such x, and a list made
\* from a set has no fixed order: the result is the set of possible outcomes.
RECURSIVE Reco_close_parents(_, _, _)
Reco_close_parents(E, ps, s) ==
  IF ps = <<>> THEN {s}
  ELSE LET p == Head(ps) IN
       IF s.childs_seen[p] = out_degree(E, p)
       THEN LET p_stable == {i \in s.reach[p] : s.spread[i] = 1}
                known == p_stable \cap DOMAIN s.stability
                sts == IF known = {} THEN {s.stability}
                       ELSE {[k \in DOMAIN s.stability \cup {p} |->
                                IF k = p THEN s.stability[x] ELSE s.stability[k]]
                             : x \in known}
            IN  UNION {Reco_close_parents(E, Tail(ps),
                         [s EXCEPT !.queue = Append(@, p),
                                   !.stability_tree = @ \cup {<<p, x>> : x \in p_stable},
                                   !.stability = st2,
                                   !.reach = [@ EXCEPT ![p] = @ \ p_stable],
                                   !.spread = [j \in DOMAIN @ |->
                                                 IF j \in p_stable THEN 0 ELSE @[j]]])
                       : st2 \in sts}
       ELSE Reco_close_parents(E, Tail(ps), s)

\* one turn of "while not X.empty()": v = X.get(False), the two loops over the
\* parents of v, "del reach[v]"
Reco_update_stable_step ==
  /\ pc = "sweep" /\ queue # <<>>
  /\ LET v == Head(queue)
         up == Reco_spread_up(N, v, spread, reach, childs_seen)
         s0 == [stability |-> stability, stability_tree |-> stability_tree,
                queue |-> Tail(queue), spread |-> up.spread,
                reach |-> up.reach, childs_seen |-> up.childs_seen]
     IN  \E ps \in orders(predecessors(N, v)) :
         \E s1 \in Reco_close_parents(N, ps, s0) :
           /\ stability' = s1.stability
           /\ stability_tree' = s1.stability_tree
           /\ queue' = s1.queue
           /\ spread' = s1.spread
           /\ reach' = [s1.reach EXCEPT ![v] = {}]
           /\ childs_seen' = s1.childs_seen
           \* the calls of X.put in this turn are what the queue has got
           /\ put_count' = [j \in DOMAIN put_count |->
                 put_count[j] + Cardinality({k \in Len(queue)..Len(s1.queue) :
                                               s1.queue[k] = j})]
           /\ taken_off' = taken_off \cup {v}
  /\ UNCHANGED <<impl, verbose, calls, paretovars, pc, err, X, netvars, dominators, propvars>>

\* the queue is empty: _update_stable returns and its locals are gone
Reco_update_stable_end ==
  /\ pc = "sweep" /\ queue = <<>>
  /\ pc' = "ready"
  /\ spread' = [v \in DOMAIN spread |-> 0]
  /\ reach' = [v \in DOMAIN reach |-> {}]
  /\ childs_seen' = [v \in DOMAIN childs_seen |-> 0]
  /\ put_count' = [v \in DOMAIN put_count |-> 0]
  /\ taken_off' = {}
  /\ UNCHANGED <<impl, verbose, calls, paretovars, err, X, netvars, stabvars, queue, propvars>>

---------------------------------------------------------------------------
\* property values.  A val is None or a Python value; Python's bool is an
\* int (True == 1, False == 0, and "self.val != _val" compares them so), so a
\* value is held as the one-element tuple of its integer and None as <<>>.

None == <<>>
PyInt(n) == <<n>>
PyBool(b) == IF b THEN <<1>> ELSE <<0>>
\* "if _val:"
truthy(val) == val # None /\ val[1] # 0

\* src/properties/common.py
network_types == <<"tc", "ntc", "gs", "ts", "rv", "cv", "cp", "ns", "tb">>
BoolProps == {"tc", "ntc", "gs", "ts", "rv", "cv", "cp", "ns", "gt", "tb"}
\* the properties of PhyloNetwork.properties that the model covers
Props == BoolProps \cup {"ur"}
\* the numerical properties r, lvl and nd
NumProps == {"r", "lvl", "nd"}

\* a variant of the table below in which 'rv' implies 'cp' as well
positive_implications_with_cp ==
  [tc |-> <<"ntc", "ns">>, ntc |-> <<"gs">>, gs |-> <<"ts", "rv">>,
   rv |-> <<"cv", "cp">>, ns |-> <<"cv">>, gt |-> <<"rv">>]

positive_implications ==
  [tc |-> <<"ntc", "ns">>, ntc |-> <<"gs">>, gs |-> <<"ts", "rv">>,
   rv |-> <<"cv">>, ns |-> <<"cv">>, gt |-> <<"rv">>]
\* the keys of positive_implications, in one order of iteration
positive_keys == <<"tc", "ntc", "gs", "rv", "ns", "gt">>

in_list(x, list) == \E i \in 1..Len(list) : list[i] = x

\* a variant of the table below with the comprehension the wrong way round:
\* the negative list of x holds what x implies
negative_implications_forward ==
  [x \in {network_types[i] : i \in 1..Len(network_types)} |->
     IF x \in DOMAIN positive_implications THEN positive_implications[x] ELSE <<>>]

\* dict((x, [y for y in positive_implications if x in positive_implications[y]])
\*      for x in network_types)
negative_implications ==
  [x \in {network_types[i] : i \in 1..Len(network_types)} |->
     SelectSeq(positive_keys, LAMBDA y : in_list(x, positive_implications[y]))]

\* positive_implications.get(short, []) and negative_implications.get(short, [])
positive_get(short) ==
  IF short \in DOMAIN positive_implications THEN positive_implications[short] ELSE <<>>
negative_get(short) ==
  IF short \in DOMAIN negative_implications THEN negative_implications[short] ELSE <<>>

\* a variant of set below whose else branch calls set() where unset() is meant
RECURSIVE set_never_unset(_, _, _)
set_never_unset(props, short, val) ==
  LET RECURSIVE each(_, _)
      each(ps, list) ==
        IF list = <<>> THEN ps
        ELSE each(set_never_unset(ps, Head(list), PyBool(TRUE)), Tail(list))
  IN  IF props[short] # val
      THEN LET assigned == [props EXCEPT ![short] = val]
           IN  IF truthy(val)
               THEN each(assigned, positive_get(short))
               ELSE each(assigned, negative_get(short))
      ELSE props

\* NetworkProperty.set: props is the val of every property, short the property
\* set is called on
RECURSIVE set(_, _, _)
RECURSIVE set_each(_, _, _)
set(props, short, val) ==
  IF props[short] # val
  THEN LET assigned == [props EXCEPT ![short] = val]
       IN  IF truthy(val)
           THEN set_each(assigned, positive_get(short), PyBool(TRUE))
           ELSE set_each(assigned, negative_get(short), PyBool(FALSE))
  ELSE props
\* "for impl in ...: self.network.properties[impl].set()" (or .unset())
set_each(props, list, val) ==
  IF list = <<>> THEN props
  ELSE set_each(set(props, Head(list), val), Tail(list), val)

\* NetworkProperty.unset
unset(props, short) == set(props, short, PyBool(FALSE))

\* NetworkProperty.set_if_none
set_if_none(props, short, val) ==
  IF props[short] = None THEN [props EXCEPT ![short] = val] ELSE props

\* PhyloNetwork.is_stable: "self.stability.get(v, False)" is used as a truth value
is_stable(E, st, v) ==
  IF node_type(E, v) = "leaf" THEN TRUE
  ELSE v \in DOMAIN st /\ st[v] # 0

---------------------------------------------------------------------------
\* the check() procedures of the boolean properties, src/properties/bool_prop.py.
\* Each loops over vertices and calls unset() at every offending one; it
\* returns at the first one unless verbose; a loop that ends calls set_if_none().

RECURSIVE unset_times(_, _, _)
unset_times(props, short, n) ==
  IF n = 0 THEN props ELSE unset_times(unset(props, short), short, n - 1)

\* the common shape of the loops, given the set of offending items
check_loop(props, short, offending, verb) ==
  IF offending = {} THEN set_if_none(props, short, PyBool(TRUE))
  ELSE IF verb
       THEN set_if_none(unset_times(props, short, Cardinality(offending)), short, PyBool(TRUE))
       ELSE unset(props, short)

\* TreeChildProp.check: the non-leaves without a child of in-degree 1
TreeChild_offending(E) ==
  {v \in nodes(E) : /\ out_degree(E, v) # 0
                    /\ ~ \E c \in successors(E, v) : in_degree(E, c) = 1}

\* TreeSiblingProp.check: the reticulations without a tree sibling
TreeSibling_offending(E, retic) ==
  {v \in retic : {c \in UNION {successors(E, p) : p \in predecessors(E, v)} :
                    ~ is_reticulation(E, c)} = {}}

\* ReticulationVisibleProp.check: the reticulations that are not stable
ReticulationVisible_offending(E, retic, st) ==
  {v \in retic : ~ is_stable(E, st, v)}

\* NearlyStableProp.check: the unstable non-root vertices with an unstable parent
NearlyStable_offending(E, r, st) ==
  {v \in nodes(E) \ {r} : /\ ~ is_stable(E, st, v)
                          /\ \E p \in predecessors(E, v) : ~ is_stable(E, st, p)}

\* CompressedProp.check: the (reticulation, reticulation parent) pairs
Compressed_offending(E, retic) ==
  {rp \in retic \X nodes(E) : rp[2] \in predecessors(E, rp[1]) /\ is_reticulation(E, rp[2])}

\* GeneticallyStableProp.check: the reticulations that are unstable or have no
\* stable parent
GeneticallyStable_offending(E, retic, st) ==
  {r \in retic : \/ ~ is_stable(E, st, r)
                 \/ {x \in predecessors(E, r) : is_stable(E, st, x)} = {}}

\* a set as a list, in ascending order
RECURSIVE sorted(_)
sorted(S) ==
  IF S = {} THEN <<>>
  ELSE LET m == CHOOSE x \in S : \A y \in S : x <= y IN <<m>> \o sorted(S \ {m})

\* NearlyTreeChildProp.check_TP(v, has_TP): the answer and the memo it leaves.
\* check_TP_succ is its loop "for i in successors(v)".
RECURSIVE check_TP(_, _, _)
RECURSIVE check_TP_succ(_, _, _, _)
check_TP(E, v, has_TP) ==
  IF ~ is_reticulation(E, v)
  THEN IF v \in DOMAIN has_TP THEN [res |-> has_TP[v], memo |-> has_TP]
       ELSE check_TP_succ(E, v, sorted(successors(E, v)), has_TP)
  ELSE [res |-> FALSE, memo |-> has_TP]
check_TP_succ(E, v, succ, has_TP) ==
  IF succ = <<>> THEN [res |-> FALSE, memo |-> has_TP]
  ELSE LET sub == check_TP(E, Head(succ), has_TP)
           memo2 == [k \in DOMAIN sub.memo \cup {v} |-> IF k = v THEN sub.res ELSE sub.memo[k]]
       IN  IF sub.res THEN [res |-> TRUE, memo |-> memo2]
           ELSE check_TP_succ(E, v, Tail(succ), memo2)

\* NearlyTreeChildProp.check: the tree parents of reticulations without a tree
\* path, visited in the order ps with the memo handed on; par[l] is the parent
\* "next(predecessors(l))" of the leaf l, which starts the memo as True
RECURSIVE NearlyTreeChild_offending(_, _, _)
NearlyTreeChild_offending(E, ps, has_TP) ==
  IF ps = <<>> THEN {}
  ELSE LET t == check_TP(E, Head(ps), has_TP)
       IN  (IF t.res THEN {} ELSE {Head(ps)})
           \cup NearlyTreeChild_offending(E, Tail(ps), t.memo)
NearlyTreeChild_parents(E, retic) ==
  sorted({p \in UNION {predecessors(E, r) : r \in retic} : ~ is_reticulation(E, p)})

\* TreeBasedProp.check: G_N has the arc (xa, yb) for every arc (x, y) of N;
\* networkx.bipartite.maximum_matching gives a matching of maximum size
is_matching(M) == \A e \in M : \A f \in M : e # f => (e[1] # f[1] /\ e[2] # f[2])
maximum_matching(E) ==
  LET sizes == {Cardinality(M) : M \in {K \in SUBSET E : is_matching(K)}}
  IN  CHOOSE n \in sizes : \A m \in sizes : m <= n
TreeBased_value(E, lvs) ==
  maximum_matching(E) = Cardinality(nodes(E)) - Cardinality(lvs)

\* NumUnstableRoots.compute_unstable_roots: the unstable reticulations, and
\* the set unstable_roots of their non-reticulation children
unstable_reticulations(E, retic, st) == {u \in retic : ~ is_stable(E, st, u)}
unstable_roots(E, retic, st) ==
  {v \in UNION {successors(E, u) : u \in unstable_reticulations(E, retic, st)} :
     ~ is_reticulation(E, v)}

\* networkx.biconnected_components(N.to_undirected()): the vertex sets of
\* the blocks, that is the maximal sets B of two or more vertices such that
\* the undirected graph on B is connected and stays so without any one vertex
to_undirected(E) == E \cup {<<e[2], e[1]>> : e \in E}

connected(E, B) ==
  \/ B = {}
  \/ LET x == CHOOSE y \in B : TRUE
     IN  descendants({e \in to_undirected(E) : e[1] \in B /\ e[2] \in B}, {x}) = B

is_biconnected(E, B) ==
  /\ Cardinality(B) >= 2
  /\ connected(E, B)
  /\ \A v \in B : connected(E, B \ {v})

biconnected_components(E) ==
  LET bi == {B \in SUBSET nodes(E) : is_biconnected(E, B)}
  IN  {B \in bi : \A C \in bi : B \subseteq C => B = C}

\* a variant of max_per_block that counts the vertices of each block, not
\* those of v_set in it
max_per_block_size(E, v_set) ==
  LET lists_per_block == {B \in biconnected_components(E) : Cardinality(B) > 2}
      sizes == {Cardinality(x) : x \in lists_per_block}
  IN  IF lists_per_block = {} THEN 0
      ELSE CHOOSE m \in sizes : \A k \in sizes : k <= m

\* a variant of max_per_block that gives 1, not 0, when no block has more
\* than two vertices
max_per_block_or_1(E, v_set) ==
  LET lists_per_block == {v_set \cap B : B \in {C \in biconnected_components(E) :
                                                   Cardinality(C) > 2}}
      sizes == {Cardinality(x) : x \in lists_per_block}
  IN  IF lists_per_block = {} THEN 1
      ELSE CHOOSE m \in sizes : \A k \in sizes : k <= m

\* PhyloNetwork.max_per_block
max_per_block(E, v_set) ==
  LET lists_per_block == {v_set \cap B : B \in {C \in biconnected_components(E) :
                                                   Cardinality(C) > 2}}
      sizes == {Cardinality(x) : x \in lists_per_block}
  IN  IF lists_per_block = {} THEN 0
      ELSE CHOOSE m \in sizes : \A k \in sizes : k <= m

\* what check() of the property short leaves in props, or the exception it
\* raises.  par is the choice of "next(predecessors(l))" for every leaf l.
check(short, props, E, r, retic, lvs, st, verb, par) ==
  CASE short = "tc" ->
         [err |-> "", props |-> check_loop(props, "tc", TreeChild_offending(E), verb)]
    [] short = "ts" ->
         [err |-> "", props |-> check_loop(props, "ts", TreeSibling_offending(E, retic), verb)]
    [] short = "rv" ->
         [err |-> "", props |-> check_loop(props, "rv", ReticulationVisible_offending(E, retic, st), verb)]
    [] short = "ns" ->
         [err |-> "", props |-> check_loop(props, "ns", NearlyStable_offending(E, r, st), verb)]
    [] short = "cv" ->
         \* "s = successors(v)[0]" with successors = N.successors_iter: an
         \* iterator has no [0], the first turn of the loop raises TypeError
         IF retic # {} THEN [err |-> "TypeError", props |-> props]
         ELSE [err |-> "", props |-> set_if_none(props, "cv", PyBool(TRUE))]
    [] short = "cp" ->
         [err |-> "", props |-> check_loop(props, "cp", Compressed_offending(E, retic), verb)]
    [] short = "ntc" ->
         [err |-> "",
          props |-> check_loop(props, "ntc",
                      NearlyTreeChild_offending(E, NearlyTreeChild_parents(E, retic),
                         [p \in {par[l] : l \in lvs} |-> TRUE]), verb)]
    [] short = "gs" ->
         [err |-> "", props |-> check_loop(props, "gs", GeneticallyStable_offending(E, retic, st), verb)]
    [] short = "tb" ->
         [err |-> "", props |-> set(props, "tb", PyBool(TreeBased_value(E, lvs)))]
    [] short = "gt" ->
         \* "self.network.compute_level()": PhyloNetwork has no such method
         [err |-> "AttributeError", props |-> props]
    [] short = "ur" ->
         \* "v = next(successors(u))" raises StopIteration at a childless u
         IF \E u \in unstable_reticulations(E, retic, st) : successors(E, u) = {}
         THEN [err |-> "StopIteration", props |-> props]
         ELSE LET ur == unstable_roots(E, retic, st)
                  p1 == set(props, "cv", PyBool(ur = {}))
                  p2 == set(p1, "ur", PyBool(ur = {}))
              IN  [err |-> "", props |-> set(p2, "ur", PyInt(Cardinality(ur)))]
    [] short = "r" ->
         [err |-> "", props |-> set(props, "r", PyInt(Cardinality(retic)))]
    [] short = "lvl" ->
         [err |-> "", props |-> set(props, "lvl", PyInt(max_per_block(E, retic)))]

\* NestingDepth.  The state of one check() is the record g of the exception
\* raised ("" if none), the registry, the arcs of nesting_tree, taboo_nodes,
\* and whether goto_lowest_stable has returned from inside its loops.

\* a variant of the climb below that does not stop at the blocker
RECURSIVE climb_tree_past_blocker(_, _, _, _)
climb_tree_past_blocker(E, u, blocker, taboo_nodes) ==
  IF is_reticulation(E, u) \/ u \in taboo_nodes
  THEN [err |-> "", u |-> u, taboo_nodes |-> taboo_nodes]
  ELSE IF predecessors(E, u) = {}
       THEN [err |-> "IndexError", u |-> u, taboo_nodes |-> taboo_nodes \cup {u}]
       ELSE climb_tree_past_blocker(E, CHOOSE q \in predecessors(E, u) : TRUE, blocker,
                                    taboo_nodes \cup {u})

\* NestingDepth.climb_tree_until; "predecessors(u)[0]" of a vertex without
\* parent raises IndexError
RECURSIVE climb_tree_until(_, _, _, _)
climb_tree_until(E, u, blocker, taboo_nodes) ==
  IF is_reticulation(E, u) \/ u = blocker \/ u \in taboo_nodes
  THEN [err |-> "", u |-> u, taboo_nodes |-> taboo_nodes]
  ELSE IF predecessors(E, u) = {}
       THEN [err |-> "IndexError", u |-> u, taboo_nodes |-> taboo_nodes \cup {u}]
       ELSE climb_tree_until(E, CHOOSE q \in predecessors(E, u) : TRUE, blocker,
                             taboo_nodes \cup {u})

\* "while True" of goto_lowest_stable in src/properties/num_prop.py, from
\* the parent p of r
RECURSIVE Phylo_goto_while(_, _, _, _, _, _)
Phylo_goto_while(E, dom, r, p, stable_on_r, g) ==
  LET c == climb_tree_until(E, p, stable_on_r, g.taboo_nodes)
      g1 == [g EXCEPT !.taboo_nodes = c.taboo_nodes]
  IN  IF c.err # "" THEN {[g1 EXCEPT !.err = c.err]}
      ELSE IF c.u = stable_on_r THEN {g1}
      ELSE IF is_reticulation(E, c.u)
           THEN Phylo_goto_while(E, dom, r, dom[c.u], stable_on_r,
                  [g1 EXCEPT !.nesting_tree = @ \cup {<<r, c.u>>}])
           ELSE {[g1 EXCEPT !.props = set(@, "nd", PyInt(-1)), !.returned = TRUE]}

\* the same loop in src/RecoPhyNC.py; "stability_tree.predecessors(u)[0]" is
\* any parent of u in the stability tree and raises IndexError if u has none
RECURSIVE Reco_goto_while(_, _, _, _, _, _, _)
Reco_goto_while(E, stree, r, p, stable_on_r, g, verb) ==
  LET c == climb_tree_until(E, p, stable_on_r, g.taboo_nodes)
      g1 == [g EXCEPT !.taboo_nodes = c.taboo_nodes]
      g2 == IF c.u \in c.taboo_nodes
            THEN [g1 EXCEPT !.props = set(@, "nd", PyInt(-1))]
            ELSE g1
  IN  IF c.err # "" THEN {[g1 EXCEPT !.err = c.err]}
      ELSE IF c.u = stable_on_r THEN {g1}
      ELSE IF c.u \in c.taboo_nodes /\ ~verb THEN {[g2 EXCEPT !.returned = TRUE]}
      ELSE IF is_reticulation(E, c.u)
           THEN IF predecessors(stree, c.u) = {}
                THEN {[g2 EXCEPT !.err = "IndexError"]}
                ELSE UNION {Reco_goto_while(E, stree, r, q, stable_on_r,
                              [g2 EXCEPT !.nesting_tree = @ \cup {<<r, c.u>>}], verb)
                            : q \in predecessors(stree, c.u)}
           ELSE {g2}

\* "for p in predecessors(r)" of goto_lowest_stable, over the parents ps
RECURSIVE goto_parents(_, _, _, _, _, _, _, _, _)
goto_parents(im, E, dom, stree, r, ps, stable_on_r, g, verb) ==
  IF ps = <<>> \/ g.returned \/ g.err # "" THEN {g}
  ELSE UNION {goto_parents(im, E, dom, stree, r, Tail(ps), stable_on_r, h, verb)
              : h \in IF im = "Phylo"
                      THEN Phylo_goto_while(E, dom, r, Head(ps), stable_on_r, g)
                      ELSE Reco_goto_while(E, stree, r, Head(ps), stable_on_r, g, verb)}

\* NestingDepth.goto_lowest_stable; lowest_stable is never written, so that
\* "r not in self.lowest_stable" holds.  The parents of r come in any order.
goto_lowest_stable(im, E, dom, stree, r, g, verb) ==
  LET g0 == [g EXCEPT !.returned = FALSE]
      stable == IF im = "Phylo" THEN {dom[r]} ELSE predecessors(stree, r)
  IN  IF stable = {} THEN {[g0 EXCEPT !.err = "IndexError"]}
      ELSE UNION {goto_parents(im, E, dom, stree, r, ps, stable_on_r, g0, verb)
                  : <<ps, stable_on_r>> \in orders(predecessors(E, r)) \X stable}

\* "for r in BR: self.goto_lowest_stable(r, taboo_nodes)", over the order rs
RECURSIVE goto_each(_, _, _, _, _, _, _)
goto_each(im, E, dom, stree, rs, g, verb) ==
  IF rs = <<>> \/ g.err # "" THEN {g}
  ELSE UNION {goto_each(im, E, dom, stree, Tail(rs), h, verb)
              : h \in goto_lowest_stable(im, E, dom, stree, Head(rs), g, verb)}

\* NestingDepth.depth_in_nesting_tree; 0 stands for the ValueError raised at
\* a vertex with more than one parent in the nesting tree
RECURSIVE depth_in_nesting_tree(_, _)
depth_in_nesting_tree(nesting_tree, r) ==
  LET p == predecessors(nesting_tree, r)
  IN  IF p = {} THEN 1
      ELSE IF Cardinality(p) > 1 THEN 0
      ELSE LET d == depth_in_nesting_tree(nesting_tree, CHOOSE q \in p : TRUE)
           IN  IF d = 0 THEN 0 ELSE d + 1

\* "for B in biconnected_components(...)" of check(), over the blocks Bs of
\* more than two vertices in the order they are generated
RECURSIVE NestingDepth_blocks(_, _, _, _, _, _, _, _)
NestingDepth_blocks(im, E, dom, stree, retic, Bs, props, verb) ==
  IF Bs = <<>>
  THEN {[err |-> "", props |-> set_if_none(props, "nd", PyInt(0))]}
  ELSE LET BR == Head(Bs) \cap retic
           g0 == [err |-> "", props |-> props, nesting_tree |-> {},
                  taboo_nodes |-> {}, returned |-> FALSE]
       IN  UNION {
             IF g.err # "" THEN {[err |-> g.err, props |-> g.props]}
             ELSE IF g.props["nd"] = None
             THEN LET \* depths holds the vertices of BR with a parent
                      depths == {depth_in_nesting_tree(g.nesting_tree, r) :
                                   r \in {x \in BR : predecessors(g.nesting_tree, x) # {}}}
                      values == IF depths = {} THEN {1} ELSE depths
                  IN  IF 0 \in {depth_in_nesting_tree(g.nesting_tree, r) : r \in BR}
                      THEN {[err |-> "ValueError", props |-> g.props]}
                      ELSE NestingDepth_blocks(im, E, dom, stree, retic, Tail(Bs),
                             set(g.props, "nd",
                                 PyInt(CHOOSE m \in values : \A k \in values : k <= m)),
                             verb)
             ELSE IF ~verb THEN {[err |-> "", props |-> g.props]}
             ELSE NestingDepth_blocks(im, E, dom, stree, retic, Tail(Bs), g.props, verb)
             : g \in UNION {goto_each(im, E, dom, stree, rs, g0, verb) : rs \in orders(BR)}}

\* NestingDepth.check: the possible outcomes, one for each order in which
\* blocks, reticulations and parents can be iterated
NestingDepth_check(im, props, E, dom, stree, retic, verb) ==
  LET p1 == IF props["lvl"] = None
            THEN set(props, "lvl", PyInt(max_per_block(E, retic)))
            ELSE props
      level == p1["lvl"][1]
  IN  IF level > 1
      THEN UNION {NestingDepth_blocks(im, E, dom, stree, retic, Bs, p1, verb)
                  : Bs \in orders({B \in biconnected_components(E) : Cardinality(B) > 2})}
      ELSE {[err |-> "", props |-> set(p1, "nd", PyInt(level))]}

\* MaxReticulationSubgraphIndegree.  The state of one check() is the record
\* s of the queue X, parents_seen and collective_indeg (a missing key reads
\* 0), how often X.put was called with each vertex, the vertices X.get_nowait
\* has returned, and whether every vertex was put after all its parents had
\* been returned.

\* a variant of the loop below that counts 1 for every parent, reticulation
\* or not
RECURSIVE Rsi_successors_plain_indegree(_, _, _, _)
Rsi_successors_plain_indegree(E, v, ss, s) ==
  IF ss = <<>> THEN s
  ELSE LET c == Head(ss)
           ci == IF is_reticulation(E, c)
                 THEN [s.collective_indeg EXCEPT ![c] = @ + 1]
                 ELSE s.collective_indeg
           ps == [s.parents_seen EXCEPT ![c] = @ + 1]
           s1 == [s EXCEPT !.collective_indeg = ci, !.parents_seen = ps]
       IN  Rsi_successors_plain_indegree(E, v, Tail(ss),
             IF ps[c] = in_degree(E, c)
             THEN [s1 EXCEPT !.queue = Append(@, c),
                             !.put_count = [@ EXCEPT ![c] = @ + 1],
                             !.after_parents = @ /\ predecessors(E, c) \subseteq s.taken_off]
             ELSE s1)

\* "for s in successors(v)", over the children ss of v in the order of the loop
RECURSIVE Rsi_successors(_, _, _, _)
Rsi_successors(E, v, ss, s) ==
  IF ss = <<>> THEN s
  ELSE LET c == Head(ss)
           ci == IF is_reticulation(E, c)
                 THEN [s.collective_indeg EXCEPT ![c] =
                         @ + (IF is_reticulation(E, v) THEN s.collective_indeg[v] ELSE 1)]
                 ELSE s.collective_indeg
           ps == [s.parents_seen EXCEPT ![c] = @ + 1]
           s1 == [s EXCEPT !.collective_indeg = ci, !.parents_seen = ps]
       IN  Rsi_successors(E, v, Tail(ss),
             IF ps[c] = in_degree(E, c)
             THEN [s1 EXCEPT !.queue = Append(@, c),
                             !.put_count = [@ EXCEPT ![c] = @ + 1],
                             !.after_parents = @ /\ predecessors(E, c) \subseteq s.taken_off]
             ELSE s1)

\* "while not X.empty()": the children of a vertex come in any order
RECURSIVE Rsi_while(_, _)
Rsi_while(E, s) ==
  IF s.queue = <<>> THEN {s}
  ELSE LET v == Head(s.queue)
           s0 == [s EXCEPT !.queue = Tail(@), !.taken_off = @ \cup {v}]
       IN  UNION {Rsi_while(E, Rsi_successors(E, v, ss, s0))
                  : ss \in orders(successors(E, v))}

\* the runs of the loop from "X.put(network.root)"
Rsi_runs(E, r) ==
  Rsi_while(E, [queue |-> <<r>>,
                parents_seen |-> [v \in nodes(E) |-> 0],
                collective_indeg |-> [v \in nodes(E) |-> 0],
                put_count |-> [v \in nodes(E) |-> IF v = r THEN 1 ELSE 0],
                taken_off |-> {},
                after_parents |-> TRUE])

\* MaxReticulationSubgraphIndegree.check: "max(collective_indeg.values() or
\* [0])"; the values held are those of reticulations and are positive
Rsi_check(props, E, r) ==
  {LET values == {s.collective_indeg[v] : v \in nodes(E)} \cup {0}
   IN  [err |-> "",
        props |-> set(props, "rsi", PyInt(CHOOSE m \in values : \A k \in values : k <= m))]
   : s \in Rsi_runs(E, r)}

\* NetworkProperty.get, called by report(): check() runs if val is None, and
\* an exception of check() ends the run; else the cached val is returned
get(short) ==
  /\ pc = "ready"
  /\ IF properties[short] = None
     THEN \E par \in (IF short = "ntc" THEN first_parents(N, leaves) ELSE {<<>>}) :
         \E c \in (IF short = "nd"
                   THEN NestingDepth_check(impl, properties, N, dominators,
                                           stability_tree, reticulations, verbose)
                   ELSE IF short = "rsi" THEN Rsi_check(properties, N, root)
                   ELSE {check(short, properties, N, root, reticulations, leaves,
                               stability, verbose, par)}) :
                IF c.err # ""
                THEN /\ pc' = "failed"
                     /\ err' = c.err
                     /\ UNCHANGED properties
                ELSE /\ properties' = c.props
                     /\ UNCHANGED <<pc, err>>
     ELSE UNCHANGED <<pc, err, properties>>
  /\ UNCHANGED <<impl, verbose, calls, paretovars, X, netvars, stabvars, sweepvars>>

---------------------------------------------------------------------------
Init ==
  /\ impl \in {"Phylo", "Reco"}
  /\ verbose \in BOOLEAN
  /\ N \in InputGraphs
  /\ X = nodes(N)
  /\ pc = "contract"
  /\ err = ""
  /\ root = 0
  /\ reticulations = {}
  /\ leaves = {}
  /\ dominators = <<>>
  /\ stability = <<>>
  /\ stability_tree = {}
  /\ queue = <<>>
  /\ spread = [v \in Vertices |-> 0]
  /\ reach = [v \in Vertices |-> {}]
  /\ childs_seen = [v \in Vertices |-> 0]
  /\ put_count = [v \in Vertices |-> 0]
  /\ taken_off = {}
  /\ properties = [p \in Props \cup NumProps \cup {"rsi"} |-> None]
  /\ calls = <<>>
  /\ vectors = <<>>
  /\ result = <<>>

\* open(): _contract, _update_infos, _update_stable
NextOpen ==
  \/ Phylo_contract_step
  \/ Reco_contract_step
  \/ contract_return
  \/ update_infos
  \/ Phylo_update_stable
  \/ Reco_update_stable_begin
  \/ Reco_update_stable_step
  \/ Reco_update_stable_end

\* the program: open(), then report() of the properties in any order
Next ==
  \/ NextOpen
  \/ \E short \in Props : get(short)

Spec == Init /\ [][Next]_vars

\* open(), then get() of the numerical properties and of 'gt' in any order
NextNum ==
  \/ NextOpen
  \/ \E short \in NumProps \cup {"gt"} : get(short)

SpecNum == Init /\ [][NextNum]_vars

\* open(), then get() of 'rsi' and of 'r'
NextRsi ==
  \/ NextOpen
  \/ \E short \in {"rsi", "r"} : get(short)

SpecRsi == Init /\ [][NextRsi]_vars

\* Input files with several blocks.  OneCycle has one block of more than two
\* vertices, with the reticulation 3; NotNested has one block, with the
\* reticulations 4 and 5, which is not nested.  A chain is made of n copies
\* of OneCycle and a last network, each hung at the leaf 4 of the one before.
MaxBlocks == 3

OneCycle == {<<1, 2>>, <<1, 3>>, <<2, 3>>, <<2, 4>>}
NotNested == {<<1, 2>>, <<1, 3>>, <<2, 4>>, <<3, 4>>, <<2, 5>>, <<3, 5>>}

shift(E, k) == {<<e[1] + k, e[2] + k>> : e \in E}
chain(n, last) ==
  UNION {shift(OneCycle, 3 * (i - 1)) : i \in 1..n} \cup shift(last, 3 * n)
ChainGraphs ==
  {chain(n, last) : <<n, last>> \in (0..(MaxBlocks - 1)) \X {OneCycle, NotNested}}
ChainVertices == 1..(3 * (MaxBlocks - 1) + 5)

\* the program on a chain: open(), then get() of the numerical properties
InitBlocks ==
  /\ impl \in {"Phylo", "Reco"}
  /\ verbose \in BOOLEAN
  /\ N \in ChainGraphs
  /\ X = nodes(N)
  /\ pc = "contract"
  /\ err = ""
  /\ root = 0
  /\ reticulations = {}
  /\ leaves = {}
  /\ dominators = <<>>
  /\ stability = <<>>
  /\ stability_tree = {}
  /\ queue = <<>>
  /\ spread = [v \in ChainVertices |-> 0]
  /\ reach = [v \in ChainVertices |-> {}]
  /\ childs_seen = [v \in ChainVertices |-> 0]
  /\ put_count = [v \in ChainVertices |-> 0]
  /\ taken_off = {}
  /\ properties = [p \in Props \cup NumProps \cup {"rsi"} |-> None]
  /\ calls = <<>>
  /\ vectors = <<>>
  /\ result = <<>>

SpecBlocks == InitBlocks /\ [][NextNum]_vars

\* the library (src/Phylo.py, verbose left at its default) on the input
\* graphs without a vertex of in-degree > 1: open(), then get() in any order
\* of the network types and of r, lvl and nd
InitTree ==
  /\ Init
  /\ impl = "Phylo"
  /\ verbose = FALSE
  /\ \A v \in nodes(N) : in_degree(N, v) <= 1

NextTree ==
  \/ Phylo_contract_step
  \/ contract_return
  \/ update_infos
  \/ Phylo_update_stable
  \/ \E short \in {network_types[i] : i \in 1..Len(network_types)} \cup NumProps :
       get(short)

SpecTree == InitTree /\ [][NextTree]_vars

\* open() alone
SpecOpen == Init /\ [][NextOpen]_vars

\* open() runs on: a call that has started goes on to its next statement
SpecOpenFair == SpecOpen /\ WF_vars(NextOpen)

---------------------------------------------------------------------------
\* The property objects on their own: a network is constructed and the
\* methods set, unset and set_if_none of its boolean properties are called.

InitSet ==
  /\ impl \in {"Phylo", "Reco"}
  /\ verbose = FALSE
  /\ N = {}
  /\ X = {}
  /\ pc = "new"
  /\ err = ""
  /\ root = 0
  /\ reticulations = {}
  /\ leaves = {}
  /\ dominators = <<>>
  /\ stability = <<>>
  /\ stability_tree = {}
  /\ queue = <<>>
  /\ spread = [v \in Vertices |-> 0]
  /\ reach = [v \in Vertices |-> {}]
  /\ childs_seen = [v \in Vertices |-> 0]
  /\ put_count = [v \in Vertices |-> 0]
  /\ taken_off = {}
  /\ properties = [p \in Props \cup NumProps \cup {"rsi"} |-> None]
  /\ calls = <<>>
  /\ vectors = <<>>
  /\ result = <<>>

call_set(short, b) ==
  /\ pc = "new"
  /\ properties' = set(properties, short, PyBool(b))
  /\ UNCHANGED <<impl, verbose, calls, paretovars, pc, err, X, netvars, stabvars, sweepvars>>

call_set_if_none(short) ==
  /\ pc = "new"
  /\ properties' = set_if_none(properties, short, PyBool(TRUE))
  /\ UNCHANGED <<impl, verbose, calls, paretovars, pc, err, X, netvars, stabvars, sweepvars>>

NextSet ==
  \/ \E short \in BoolProps : \E b \in BOOLEAN : call_set(short, b)
  \/ \E short \in BoolProps : call_set_if_none(short)

SpecSet == InitSet /\ [][NextSet]_vars
---------------------------------------------------------------------------
\* _contract on its own: it is called on the graph read from the file, and
\* once more on the graph it returned.

InitContract ==
  /\ impl \in {"Phylo", "Reco"}
  /\ verbose = FALSE
  /\ N \in InputGraphs
  /\ X = nodes(N)
  /\ pc = "contract"
  /\ err = ""
  /\ root = 0
  /\ reticulations = {}
  /\ leaves = {}
  /\ dominators = <<>>
  /\ stability = <<>>
  /\ stability_tree = {}
  /\ queue = <<>>
  /\ spread = [v \in Vertices |-> 0]
  /\ reach = [v \in Vertices |-> {}]
  /\ childs_seen = [v \in Vertices |-> 0]
  /\ put_count = [v \in Vertices |-> 0]
  /\ taken_off = {}
  /\ properties = [p \in Props \cup NumProps \cup {"rsi"} |-> None]
  /\ calls = <<N>>
  /\ vectors = <<>>
  /\ result = <<>>

\* a second call of _contract, on the graph the first call returned
contract_again ==
  /\ pc = "infos" /\ Len(calls) = 1
  /\ calls' = Append(calls, N)
  /\ X' = nodes(N)
  /\ pc' = "contract"
  /\ UNCHANGED <<impl, verbose, err, netvars, stabvars, sweepvars, propvars, paretovars>>

NextContract ==
  \/ Phylo_contract_step
  \/ Reco_contract_step
  \/ contract_return
  \/ contract_again

SpecContract == InitContract /\ [][NextContract]_vars

---------------------------------------------------------------------------
\* pareto_mins, src/properties/common.py

\* Bounds: lists of up to MaxVectors vectors of the distances 1..MaxDistance
\* to the two parents of a reticulation
MaxVectors == 3
MaxDistance == 3

\* Python 2's cmp
cmp(a, b) == IF a < b THEN -1 ELSE IF a > b THEN 1 ELSE 0

\* pareto_cmp: result is the comparison of the first coordinate and is not
\* assigned in the loop over the other coordinates
RECURSIVE pareto_cmp_loop(_, _, _, _)
pareto_cmp_loop(x, y, i, res) ==
  IF i > Len(x) THEN res
  ELSE LET comp == cmp(x[i], y[i])
       IN  IF comp # 0 /\ comp + res = 0 THEN 0
           ELSE pareto_cmp_loop(x, y, i + 1, res)

pareto_cmp(x, y) == pareto_cmp_loop(x, y, 2, cmp(x[1], y[1]))

\* "for i in xrange(len(result)-1,-1,-1)": i is the position in the list,
\* counted from 1; st holds the list result and do_add
RECURSIVE pareto_scan(_, _, _)
pareto_scan(st, L, i) ==
  IF i < 1 THEN st
  ELSE LET comp == pareto_cmp(st.result[i], L)
       IN  IF comp = 1
           THEN LET tmp == st.result[Len(st.result)]
                    popped == SubSeq(st.result, 1, Len(st.result) - 1)
                IN  pareto_scan([st EXCEPT !.result =
                                   IF i <= Len(popped)
                                   THEN [popped EXCEPT ![i] = tmp]
                                   ELSE popped],
                                L, i - 1)
           ELSE IF comp = -1
           THEN pareto_scan([st EXCEPT !.do_add = FALSE], L, i - 1)
           ELSE pareto_scan(st, L, i - 1)

\* "for L in X"
RECURSIVE pareto_mins_loop(_, _)
pareto_mins_loop(res, Ls) ==
  IF Ls = <<>> THEN res
  ELSE LET st == pareto_scan([result |-> res, do_add |-> TRUE], Head(Ls), Len(res))
       IN  pareto_mins_loop(IF st.do_add THEN Append(st.result, Head(Ls)) ELSE st.result,
                            Tail(Ls))

pareto_mins(Xs) == pareto_mins_loop(<<>>, Xs)

DistanceVectors == (1..MaxDistance) \X (1..MaxDistance)
VectorLists == UNION {[1..n -> DistanceVectors] : n \in 0..MaxVectors}

\* a call of pareto_mins on a list of distance vectors
InitPareto ==
  /\ impl \in {"Phylo", "Reco"}
  /\ verbose = FALSE
  /\ N = {}
  /\ X = {}
  /\ pc = "pareto"
  /\ err = ""
  /\ root = 0
  /\ reticulations = {}
  /\ leaves = {}
  /\ dominators = <<>>
  /\ stability = <<>>
  /\ stability_tree = {}
  /\ queue = <<>>
  /\ spread = [v \in Vertices |-> 0]
  /\ reach = [v \in Vertices |-> {}]
  /\ childs_seen = [v \in Vertices |-> 0]
  /\ put_count = [v \in Vertices |-> 0]
  /\ taken_off = {}
  /\ properties = [p \in Props \cup NumProps \cup {"rsi"} |-> None]
  /\ calls = <<>>
  /\ vectors \in VectorLists
  /\ result = <<>>

call_pareto_mins ==
  /\ pc = "pareto"
  /\ result' = pareto_mins(vectors)
  /\ pc' = "returned"
  /\ UNCHANGED <<impl, verbose, err, X, netvars, stabvars, sweepvars, propvars, calls,
                 vectors>>

SpecPareto == InitPareto /\ [][call_pareto_mins]_vars

---------------------------------------------------------------------------
\* Properties of open(), checked under SpecOpen

\* C10: for every input graph, when _contract returns no vertex of the graph
\* has in-degree 1 and out-degree 1, a vertex that became one because a
\* contraction merged two edges into one included.
C10_contract_fixed_point ==
  pc = "infos" => \A v \in nodes(N) : ~ is_trivial(N, v)

\* _contract of src/Phylo.py has returned and left such a vertex
C10_trivial_vertex_left ==
  /\ pc = "infos" /\ impl = "Phylo"
  /\ \E v \in nodes(N) : is_trivial(N, v)

\* _contract of src/RecoPhyNC.py leaves none
C10_Reco_fixed_point ==
  (pc = "infos" /\ impl = "Reco") => \A v \in nodes(N) : ~ is_trivial(N, v)

\* C7: after _update_stable on a validated network every leaf x is stable on
\* itself: stability[x] = x and is_stable(x).
C7_leaves_stable_on_themselves ==
  pc = "ready" =>
    \A x \in leaves : /\ x \in DOMAIN stability
                      /\ stability[x] = x
                      /\ is_stable(N, stability, x)

\* _update_stable of src/RecoPhyNC.py has returned and a leaf is no key of
\* stability
C7_leaf_without_entry ==
  pc = "ready" /\ impl = "Reco" /\ \E x \in leaves : x \notin DOMAIN stability

\* _update_stable of src/RecoPhyNC.py has returned and is_stable is false of a leaf
C7_leaf_not_stable ==
  pc = "ready" /\ impl = "Reco" /\ \E x \in leaves : ~ is_stable(N, stability, x)

\* what src/Phylo.py does keep: every leaf is mapped to itself
C7_Phylo_leaves ==
  (pc = "ready" /\ impl = "Phylo") =>
    \A x \in leaves : /\ x \in DOMAIN stability
                      /\ stability[x] = x
                      /\ is_stable(N, stability, x)

\* C8: after _update_stable every value stored in stability is a leaf of the
\* network, and a leaf the key is stable on: every path from the root to it
\* passes through the key.
C8_stability_values_are_leaves ==
  pc = "ready" =>
    \A v \in DOMAIN stability : /\ stability[v] \in leaves
                                /\ dominates(N, root, v, stability[v])

\* _update_stable of src/Phylo.py has returned and a value of stability is
\* not a leaf
C8_value_not_a_leaf ==
  pc = "ready" /\ impl = "Phylo" /\ \E v \in DOMAIN stability : stability[v] \notin leaves

\* _update_stable of src/RecoPhyNC.py has returned and a key of stability does
\* not dominate its value
C8_key_not_dominating ==
  /\ pc = "ready" /\ impl = "Reco"
  /\ \E v \in DOMAIN stability : ~ dominates(N, root, v, stability[v])

\* what does hold in both: the value is a vertex the key lies above
C8_value_below_key ==
  pc = "ready" =>
    \A v \in DOMAIN stability : stability[v] \in descendants(N, {v})

\* C9: after _update_stable of src/Phylo.py on a validated network,
\* is_stable(v) is true of a vertex v if and only if v dominates some leaf:
\* there is a leaf x such that every path from the root to x passes through v.
C9_stable_iff_dominates_a_leaf ==
  (pc = "ready" /\ impl = "Phylo") =>
    \A v \in nodes(N) :
      is_stable(N, stability, v) <=> \E x \in leaves : dominates(N, root, v, x)

\* a network with a reticulation, where a vertex that is no leaf is stable
\* and another is not
C9_stable_and_unstable ==
  /\ pc = "ready" /\ impl = "Phylo" /\ reticulations # {}
  /\ \E v \in nodes(N) \ leaves : is_stable(N, stability, v) /\ v # root
  /\ \E v \in nodes(N) \ leaves : ~ is_stable(N, stability, v)
---------------------------------------------------------------------------
\* Properties of set, unset and set_if_none, checked under SpecSet

\* the properties reachable from those of S through positive_implications
RECURSIVE positive_closure(_)
positive_closure(S) ==
  LET T == S \cup {q \in BoolProps : \E p \in S : in_list(q, positive_get(p))}
  IN  IF T = S THEN S ELSE positive_closure(T)
\* for every property, the properties the table makes it imply, itself included
implied_by == [p \in BoolProps |-> positive_closure({p})]
\* y is in the negative list of x exactly when x is in the positive list of y
negative_is_inverse ==
  \A x \in BoolProps : \A y \in BoolProps :
    in_list(y, negative_get(x)) <=> in_list(x, positive_get(y))

\* C1: on return of set(True) on a property P, every property reachable from
\* P through the positive-implication table has the value True.
C1_set_true_closure ==
  [][\A P \in BoolProps :
       call_set(P, TRUE) =>
         \A Q \in implied_by[P] : properties'[Q] = PyBool(TRUE)]_vars

\* tc was assigned by set_if_none, set() on it has nothing to do, and the
\* properties it implies are still undetermined
C1_true_without_closure ==
  /\ pc = "new"
  /\ properties["tc"] = PyBool(TRUE)
  /\ set(properties, "tc", PyBool(TRUE)) = properties
  /\ \A Q \in implied_by["tc"] \ {"tc"} : properties[Q] = None

\* C2: on return of set(False) or unset() on P, every property Q from which P
\* is reachable through the positive-implication table has the value False;
\* and the negative table is the inverse of the positive one: y is in the
\* negative list of x exactly when x is in the positive list of y.
C2_set_false_closure ==
  [][/\ negative_is_inverse
     /\ \A P \in BoolProps :
          call_set(P, FALSE) =>
            \A Q \in BoolProps :
              P \in implied_by[Q] => properties'[Q] = PyBool(FALSE)]_vars

\* cv was refuted when tc and gt had been established: both are False now
C2_refuted_upwards ==
  /\ pc = "new"
  /\ properties["cv"] = PyBool(FALSE)
  /\ \A Q \in BoolProps : "cv" \in implied_by[Q] => properties[Q] = PyBool(FALSE)
  /\ properties["ts"] = PyBool(TRUE)

\* C5: set is idempotent: a second set(v) on P right after set(v) on P changes
\* no property, whatever P, v and the values before the first call.
C5_set_idempotent ==
  [][\A P \in BoolProps : \A b \in BOOLEAN :
       call_set(P, b) => set(properties', P, PyBool(b)) = properties']_vars

\* a set(False) that went through the table has happened after a set(True)
\* that went through it
C5_propagated ==
  /\ pc = "new"
  /\ properties["ntc"] = PyBool(FALSE)
  /\ properties["tc"] = PyBool(FALSE)
  /\ properties["ns"] = PyBool(TRUE)
  /\ properties["cv"] = PyBool(TRUE)

---------------------------------------------------------------------------
\* Properties of get(), checked under Spec

\* C3: for every validated network, in every state reached by any sequence of
\* get() calls, if tc holds True then ntc, ns, gs, ts, rv and cv all hold
\* True, also when TreeChildProp.check finishes through set_if_none().
C3_tc_implies_all ==
  properties["tc"] = PyBool(TRUE) =>
    \A q \in {"ntc", "ns", "gs", "ts", "rv", "cv"} : properties[q] = PyBool(TRUE)

\* get() of tc has returned True on a network with a reticulation, each
\* reticulation with a child, and nothing that tc implies is determined
C3_tc_alone ==
  /\ pc = "ready" /\ reticulations # {} /\ reticulations \cap leaves = {}
  /\ properties["tc"] = PyBool(TRUE)
  /\ \A q \in {"ntc", "ns", "gs", "ts", "rv", "cv"} : properties[q] = None

\* the properties whose check() calls set or unset on them directly during
\* get() of short: short itself, and cv from compute_unstable_roots
directly_set(short) == IF short = "ur" THEN {"ur", "cv"} ELSE {short}

\* C4: the propagation started by a set on a property P only assigns
\* properties that are still None: a property other than P that holds a value
\* keeps it across the call.  The calls of set are those of get()'s check().
C4_determined_values_kept ==
  [][\A short \in Props :
       get(short) =>
         \A q \in Props \ directly_set(short) :
           properties[q] # None => properties'[q] = properties[q]]_vars

\* ntc is True by its own check, and the check of gs, not yet run, will call
\* unset() on gs and through the table on ntc
C4_about_to_override ==
  /\ pc = "ready"
  /\ properties["ntc"] = PyBool(TRUE)
  /\ properties["gs"] = None
  /\ check("gs", properties, N, root, reticulations, leaves, stability,
           verbose, <<>>).props["ntc"] = PyBool(FALSE)

\* C6: for every property of a validated network get() returns a value that
\* is not None; check() runs only when the value is None; and once a property
\* holds a value it holds that value at every later get().
C6_get_determines ==
  [][/\ \A short \in Props : get(short) => properties'[short] # None
     /\ \A short \in Props :
          (get(short) /\ properties[short] # None) => UNCHANGED properties
     /\ \A q \in Props : properties[q] # None => properties'[q] = properties[q]]_vars

\* get() of gt has raised AttributeError
C6_gt_raises ==
  pc = "failed" /\ err = "AttributeError" /\ properties["gt"] = None

\* get() of cv has raised TypeError
C6_cv_raises ==
  pc = "failed" /\ err = "TypeError" /\ properties["cv"] = None
---------------------------------------------------------------------------
\* Properties of _contract, checked under SpecContract

\* the graph left when trivial vertices are contracted, the smallest first,
\* until there is none
RECURSIVE contract_all(_)
contract_all(E) ==
  LET T == {v \in nodes(E) : is_trivial(E, v)}
  IN  IF T = {} THEN E
      ELSE contract_all(contract_vertex(E, CHOOSE v \in T : \A w \in T : v <= w))

\* C11: contraction is confluent: for every input graph, the graph _contract
\* produces is the same whatever order the vertices are visited in; the model
\* visits them in every order, and every visit order must give the one graph
\* contract_all gives.
C11_contract_confluent ==
  (pc = "infos" /\ Len(calls) = 1) => N = contract_all(calls[1])

\* _contract of src/Phylo.py on the arcs 1 2, 1 3, 2 3, 3 5: visiting 3 before
\* 2 it returns the arcs 1 3, 3 5
C11_Phylo_one_order ==
  /\ pc = "infos" /\ impl = "Phylo"
  /\ calls = << {<<1, 2>>, <<1, 3>>, <<2, 3>>, <<3, 5>>} >>
  /\ N = {<<1, 3>>, <<3, 5>>}

\* and visiting 2 before 3 it returns the arc 1 5
C11_Phylo_other_order ==
  /\ pc = "infos" /\ impl = "Phylo"
  /\ calls = << {<<1, 2>>, <<1, 3>>, <<2, 3>>, <<3, 5>>} >>
  /\ N = {<<1, 5>>}

\* _contract of src/RecoPhyNC.py is confluent
C11_Reco_confluent ==
  (pc = "infos" /\ impl = "Reco" /\ Len(calls) = 1) => N = contract_all(calls[1])

\* C12: _contract is idempotent: a second call right after a first one changes
\* neither vertices nor edges, and a call on a graph that has no vertex of
\* in-degree 1 and out-degree 1 changes nothing.
C12_contract_idempotent ==
  pc = "infos" =>
    /\ Len(calls) = 2 => N = calls[2]
    /\ \A i \in 1..Len(calls) :
         (i = Len(calls) /\ \A v \in nodes(calls[i]) : ~ is_trivial(calls[i], v))
           => N = calls[i]

\* the second call of _contract of src/Phylo.py has changed the graph
C12_second_call_changes ==
  pc = "infos" /\ impl = "Phylo" /\ Len(calls) = 2 /\ N # calls[2]

\* _contract of src/RecoPhyNC.py is idempotent
C12_Reco_idempotent ==
  (pc = "infos" /\ impl = "Reco") =>
    /\ Len(calls) = 2 => N = calls[2]
    /\ \A i \in 1..Len(calls) :
         (i = Len(calls) /\ \A v \in nodes(calls[i]) : ~ is_trivial(calls[i], v))
           => N = calls[i]

\* a call on a graph without such a vertex changes nothing, in both files
C12_nothing_to_contract ==
  pc = "infos" =>
    \A i \in 1..Len(calls) :
      (i = Len(calls) /\ \A v \in nodes(calls[i]) : ~ is_trivial(calls[i], v))
        => N = calls[i]
---------------------------------------------------------------------------
\* Properties of _update_infos, checked under SpecOpen

\* the vertices of in-degree 0 of the graph _update_infos is called on
C13_in_degree_0 == {v \in nodes(N) : in_degree(N, v) = 0}

\* the graph has a vertex of in-degree 1 and out-degree 1, or a vertex of
\* in-degree > 1 and out-degree > 1
C13_bad_degrees ==
  \E v \in nodes(N) :
     \/ in_degree(N, v) = 1 /\ out_degree(N, v) = 1
     \/ in_degree(N, v) > 1 /\ out_degree(N, v) > 1

\* C13: _update_infos raises DegreeError if and only if the graph has no
\* vertex of in-degree 0, or more than one, or a vertex of in-degree 1 and
\* out-degree 1, or a vertex of in-degree > 1 and out-degree > 1; when it
\* returns normally, root is the unique vertex of in-degree 0,
\* reticulations is exactly the set of the vertices of in-degree > 1 and
\* leaves exactly the set of the vertices of out-degree 0.
C13_update_infos ==
  [][pc = "infos" /\ pc' # "infos" =>
       /\ err' = "DegreeError" <=>
            \/ Cardinality(C13_in_degree_0) # 1
            \/ C13_bad_degrees
       /\ err' = "" =>
            /\ C13_in_degree_0 = {root'}
            /\ reticulations' = {v \in nodes(N) : in_degree(N, v) > 1}
            /\ leaves' = {v \in nodes(N) : out_degree(N, v) = 0}]_vars

\* _update_infos has raised DegreeError on a graph with two vertices of
\* in-degree 0 and no vertex of a forbidden degree
C13_second_root_raises ==
  /\ pc = "failed"
  /\ err = "DegreeError"
  /\ Cardinality(C13_in_degree_0) = 2
  /\ ~C13_bad_degrees

\* _update_infos has returned normally on a graph with a reticulation
C13_infos_returned ==
  /\ pc = "stable"
  /\ err = ""
  /\ reticulations # {}
  /\ Cardinality(leaves) > 1

---------------------------------------------------------------------------
\* Properties of the numerical properties, checked under SpecNum

\* C14: for every validated network, the galled-tree property 'gt'
\* evaluates to True if and only if the level property 'lvl' evaluates to 1.
C14_gt_iff_level_1 ==
  [][pc = "ready" /\ properties["gt"] = None /\ get("gt") =>
       /\ pc' = "ready"
       /\ properties'["gt"] \in {PyBool(TRUE), PyBool(FALSE)}
       /\ properties'["gt"] = PyBool(TRUE) <=>
            check("lvl", properties, N, root, reticulations, leaves,
                  stability, verbose, <<>>).props["lvl"] = PyInt(1)]_vars

\* get() of 'gt' has raised on a network whose level has evaluated to 1
C14_level_1_gt_raises ==
  /\ pc = "failed"
  /\ err = "AttributeError"
  /\ properties["lvl"] = PyInt(1)
  /\ properties["gt"] = None

---------------------------------------------------------------------------
\* Properties of rooted binary trees, checked under SpecTree

\* the value the claim gives to each property of a tree
C15_tree_values ==
  [short \in {"tc", "ntc", "gs", "ts", "rv", "cv", "cp", "ns", "tb", "lvl", "nd", "r"} |->
     IF short \in {"lvl", "nd", "r"} THEN PyInt(0) ELSE PyBool(TRUE)]

\* C15: for every rooted binary tree (a validated network with no
\* reticulation), the properties evaluate to lvl = 0, nd = 0 and r = 0, and
\* tc, ntc, gs, ts, rv, cv, cp, ns and tb are all True.
C15_tree_properties ==
  pc = "ready" /\ reticulations = {} =>
    \A short \in DOMAIN C15_tree_values :
       properties[short] \in {None, C15_tree_values[short]}

\* every property the claim names has been evaluated on a tree
C15_tree_evaluated ==
  /\ pc = "ready"
  /\ reticulations = {}
  /\ Cardinality(leaves) > 2
  /\ \A short \in DOMAIN C15_tree_values : properties[short] # None

---------------------------------------------------------------------------
\* Properties of NumUnstableRoots, checked under Spec

\* the unstable component roots: the children of reticulations that are
\* neither reticulations nor stable
C16_unstable_component_roots ==
  {s \in nodes(N) : /\ \E v \in reticulations : s \in successors(N, v)
                    /\ ~is_reticulation(N, s)
                    /\ ~is_stable(N, stability, s)}

\* what ComponentVisibleProp.check computes on its own, on a new registry
C16_cv_on_its_own ==
  check("cv", [p \in DOMAIN properties |-> None], N, root, reticulations,
        leaves, stability, verbose, <<>>)

\* C16: computing 'ur' sets 'cv' to True exactly when the count of unstable
\* component roots is zero, that value of 'cv' is the one
\* ComponentVisibleProp.check computes on its own, and the final value of
\* 'ur' is the number of unstable component roots.
C16_ur_sets_cv ==
  [][pc = "ready" /\ properties["ur"] = None /\ get("ur") =>
       /\ pc' = "ready"
       /\ properties'["cv"] = PyBool(C16_unstable_component_roots = {})
       /\ C16_cv_on_its_own.err = ""
       /\ C16_cv_on_its_own.props["cv"] = properties'["cv"]
       /\ properties'["ur"] = PyInt(Cardinality(C16_unstable_component_roots))]_vars

\* 'ur' has been computed on a network with reticulations and has set 'cv',
\* and ComponentVisibleProp.check on its own raises
C16_ur_computed ==
  /\ pc = "ready"
  /\ reticulations # {}
  /\ properties["ur"] = PyInt(0)
  /\ properties["cv"] = PyBool(TRUE)
  /\ C16_cv_on_its_own.err = "TypeError"

---------------------------------------------------------------------------
\* Properties of NestingDepth, checked under SpecBlocks

\* the blocks of more than two vertices
C17_blocks == {B \in biconnected_components(N) : Cardinality(B) > 2}

\* the values NestingDepth can give to the block B taken alone: -1 if a climb
\* in B meets a taboo node, else the depth of the nesting tree of B
C17_block_values(B) ==
  {c.props["nd"][1] :
     c \in NestingDepth_blocks(impl, N, dominators, stability_tree, reticulations, <<B>>,
             [properties EXCEPT !["nd"] = None], verbose)}

C17_expected ==
  IF \E B \in C17_blocks : -1 \in C17_block_values(B)
  THEN -1
  ELSE LET depths == UNION {C17_block_values(B) : B \in C17_blocks}
       IN  CHOOSE m \in depths : \A k \in depths : k <= m

\* C17: for a network of level > 1, NestingDepth evaluates to -1 whenever a
\* climb in any block of more than two vertices meets a taboo node, whichever
\* block that is and whatever order the blocks are visited in; otherwise it
\* evaluates to the maximum nesting-tree depth over all those blocks.
C17_nesting_depth ==
  [][/\ pc = "ready"
     /\ properties["nd"] = None
     /\ max_per_block(N, reticulations) > 1
     /\ get("nd")
     => /\ pc' = "ready"
        /\ properties'["nd"] = PyInt(C17_expected)]_vars

\* NestingDepth has evaluated to 1 on a network of level > 1 with a block that
\* is not nested
C17_not_nested_block_missed ==
  /\ pc = "ready"
  /\ properties["lvl"] = PyInt(2)
  /\ properties["nd"] = PyInt(1)
  /\ \E B \in C17_blocks :
       -1 \in {c.props["nd"][1] :
                 c \in NestingDepth_blocks(impl, N, dominators, stability_tree,
                         reticulations, <<B>>,
                         [properties EXCEPT !["nd"] = None], verbose)}

---------------------------------------------------------------------------
\* Properties of CompressedProp in the registry, checked under SpecSet

\* C18: setting 'cp' to False changes the value of no other property: for
\* every prior state of the registry, after CompressedProp.unset() every
\* property other than 'cp' holds the value it held before.
C18_unset_cp_changes_nothing_else ==
  [][call_set("cp", FALSE) =>
       \A q \in DOMAIN properties \ {"cp"} : properties'[q] = properties[q]]_vars

\* 'cp' has been set to False in a registry where other properties are True
C18_cp_unset ==
  /\ pc = "new"
  /\ properties["cp"] = PyBool(FALSE)
  /\ properties["rv"] = PyBool(TRUE)
  /\ properties["cv"] = PyBool(TRUE)
  /\ properties["tc"] = None

---------------------------------------------------------------------------
\* Properties of verbose mode, checked under SpecBlocks

\* the outcomes of check() of the property short in the present state, were
\* verbose equal to verb
C19_outcomes(short, verb) ==
  IF short = "nd"
  THEN NestingDepth_check(impl, properties, N, dominators, stability_tree,
                          reticulations, verb)
  ELSE {check(short, properties, N, root, reticulations, leaves, stability, verb, par)
        : par \in (IF short = "ntc" THEN first_parents(N, leaves) ELSE {<<>>})}

\* C19: verbose mode only adds logging: for every validated network and
\* every property (the boolean checks and the nesting depth), the value
\* obtained with verbose = True equals the value obtained with
\* verbose = False.
C19_verbose_only_logs ==
  [][\A short \in DOMAIN properties :
       pc = "ready" /\ properties[short] = None /\ get(short) /\ pc' = "ready" =>
         \E c \in C19_outcomes(short, ~verbose) :
            c.err = "" /\ c.props[short] = properties'[short]]_vars

\* without verbose the nesting depth has evaluated to 1 on a network on which
\* it cannot do so with verbose
C19_depth_without_verbose ==
  /\ pc = "ready"
  /\ ~verbose
  /\ properties["nd"] = PyInt(1)
  /\ \A c \in NestingDepth_check(impl, [properties EXCEPT !["nd"] = None], N,
                dominators, stability_tree, reticulations, TRUE) :
        c.props["nd"] = PyInt(-1)

---------------------------------------------------------------------------
\* Properties of the sweep of _update_stable in src/RecoPhyNC.py, checked
\* under SpecOpen

\* C20: in the bottom-up stability sweep, a vertex is put on the frontier
\* only after all of its children have been taken off the frontier, and
\* every vertex of the network is put on the frontier exactly once.
C20_frontier ==
  [][/\ \A v \in DOMAIN put_count :
          put_count'[v] > put_count[v] =>
            /\ put_count'[v] = 1
            /\ successors(N, v) \subseteq taken_off'
     /\ pc = "sweep" /\ pc' = "ready" =>
          \A v \in nodes(N) : put_count[v] = 1 /\ v \in taken_off]_vars

\* the sweep is over on a network with a reticulation that has a child
C20_sweep_done ==
  /\ pc = "sweep"
  /\ queue = <<>>
  /\ \E v \in reticulations : successors(N, v) # {}
  /\ taken_off = nodes(N)
  /\ \A v \in nodes(N) : put_count[v] = 1

---------------------------------------------------------------------------
\* Termination of the sweep of _update_stable, checked under SpecOpenFair

\* C21: on every validated acyclic network with no trivial vertex, the
\* bottom-up stability sweep terminates: the frontier eventually becomes
\* empty, and by then every vertex including the root has been processed.
C21_sweep_terminates ==
  (pc = "sweep") ~> (/\ queue = <<>>
                     /\ root \in taken_off
                     /\ taken_off = nodes(N))

\* the frontier is empty after a sweep of several turns that has processed
\* the root of a network with a reticulation
C21_frontier_empty ==
  /\ pc = "sweep"
  /\ queue = <<>>
  /\ reticulations # {}
  /\ root \in taken_off
  /\ Cardinality(taken_off) >= 4

---------------------------------------------------------------------------
\* The sweep of src/RecoPhyNC.py against the dominators of src/Phylo.py,
\* checked under SpecOpen

\* the stability dict obtained by following immediate dominators upward from
\* the leaves, as _update_stable of src/Phylo.py does
C22_by_dominators ==
  Phylo_stable_loop(immediate_dominators(N, root), [u \in leaves |-> u],
                    some_order(leaves))

\* C22: on every validated network the stability tree built by the sweep has
\* an edge (p, x) if and only if p is the immediate dominator of x, so every
\* non-root vertex has exactly one predecessor in it, and the set of stable
\* vertices the sweep yields equals the set obtained by following immediate
\* dominators upward from the leaves.
C22_sweep_agrees_with_dominators ==
  pc = "ready" /\ impl = "Reco" =>
    /\ stability_tree =
         {<<immediate_dominators(N, root)[x], x>> : x \in nodes(N) \ {root}}
    /\ \A x \in nodes(N) \ {root} : Cardinality(predecessors(stability_tree, x)) = 1
    /\ {v \in nodes(N) : is_stable(N, stability, v)} =
         {v \in nodes(N) : is_stable(N, C22_by_dominators, v)}

\* the sweep has ended with the dominator tree as stability tree, and a
\* vertex that is stable by the dominators is not stable by the sweep
C22_stable_sets_differ ==
  /\ pc = "ready" /\ impl = "Reco"
  /\ stability_tree =
       {<<immediate_dominators(N, root)[x], x>> : x \in nodes(N) \ {root}}
  /\ \E v \in nodes(N) : /\ is_stable(N, C22_by_dominators, v)
                         /\ ~is_stable(N, stability, v)

---------------------------------------------------------------------------
\* Properties of Level and of NestingDepth at level 0 and 1, checked under
\* SpecNum

\* the number of reticulations in each biconnected component of more than
\* two vertices of the undirected network
C23_reticulations_per_block ==
  {Cardinality(B \cap {v \in nodes(N) : in_degree(N, v) > 1}) :
     B \in {C \in biconnected_components(N) : Cardinality(C) > 2}}

C23_level ==
  IF C23_reticulations_per_block = {} THEN 0
  ELSE CHOOSE m \in C23_reticulations_per_block :
         \A k \in C23_reticulations_per_block : k <= m

\* C23: Level evaluates to the maximum, over all biconnected components with
\* more than 2 vertices of the undirected network, of the number of
\* reticulations in that component, and to 0 when there is no such
\* component; NestingDepth evaluates to the level itself whenever the level
\* is 0 or 1.
C23_level_and_depth ==
  pc = "ready" =>
    /\ properties["lvl"] \in {None, PyInt(C23_level)}
    /\ C23_level <= 1 => properties["nd"] \in {None, PyInt(C23_level)}

\* Level and NestingDepth have both evaluated to 1
C23_level_1_evaluated ==
  /\ pc = "ready"
  /\ C23_level = 1
  /\ properties["lvl"] = PyInt(1)
  /\ properties["nd"] = PyInt(1)

---------------------------------------------------------------------------
\* Properties of MaxReticulationSubgraphIndegree, checked under SpecRsi

\* the connected components of the subgraph induced by the reticulations
C24_components ==
  LET R == {v \in nodes(N) : in_degree(N, v) > 1}
      arcs == to_undirected({e \in N : e[1] \in R /\ e[2] \in R})
  IN  {descendants(arcs, {v}) : v \in R}

\* the number of arcs entering each component from a vertex that is not a
\* reticulation
C24_entering ==
  {Cardinality({e \in N : e[2] \in K /\ in_degree(N, e[1]) <= 1}) : K \in C24_components}

C24_expected ==
  IF C24_entering = {} THEN 0
  ELSE CHOOSE m \in C24_entering : \A k \in C24_entering : k <= m

\* C24: in MaxReticulationSubgraphIndegree.check, every vertex is enqueued
\* exactly once and only after all of its parents have been dequeued, and
\* the result equals the maximum, over the connected components of the
\* subgraph induced by the reticulations, of the number of edges entering the
\* component from non-reticulation vertices (0 when there is no
\* reticulation).
C24_rsi ==
  pc = "ready" =>
    /\ \A s \in Rsi_runs(N, root) :
         /\ \A v \in nodes(N) : s.put_count[v] = 1
         /\ s.after_parents
         /\ s.taken_off = nodes(N)
    /\ properties["rsi"] \in {None, PyInt(C24_expected)}

\* 'rsi' has been evaluated on a network in which a reticulation is the
\* child of a reticulation
C24_rsi_evaluated ==
  /\ pc = "ready"
  /\ properties["rsi"] = PyInt(3)
  /\ \E e \in N : e[1] \in reticulations /\ e[2] \in reticulations

---------------------------------------------------------------------------
\* Properties of pareto_mins, checked under SpecPareto

\* y is less than or equal to x on every coordinate and less on one
C25_below(y, x) ==
  /\ \A i \in 1..Len(x) : y[i] <= x[i]
  /\ \E i \in 1..Len(x) : y[i] < x[i]

C25_count(list, x) == Cardinality({k \in 1..Len(list) : list[k] = x})

\* C25: for every list X of equal-length distance vectors, pareto_mins(X)
\* returns exactly the Pareto-minimal vectors of X: a vector is kept if and
\* only if no other vector of X is less than or equal to it on every
\* coordinate and strictly less on at least one.
C25_pareto_minimal ==
  pc = "returned" =>
    \A x \in DistanceVectors :
       C25_count(result, x) =
         IF \E k \in 1..Len(vectors) : C25_below(vectors[k], x)
         THEN 0
         ELSE C25_count(vectors, x)

\* pareto_mins has returned a vector that another vector of X is below
C25_dominated_kept ==
  /\ pc = "returned"
  /\ vectors = << <<1, 1>>, <<1, 2>> >>
  /\ C25_count(result, <<1, 2>>) = 1

---------------------------------------------------------------------------
\* Properties of NearlyTreeChildProp.check_TP, checked under Spec

\* there is a path from v to a leaf on which no vertex is a reticulation
RECURSIVE C26_tree_path(_, _)
C26_tree_path(E, v) ==
  /\ ~ is_reticulation(E, v)
  /\ \/ successors(E, v) = {}
     \/ \E c \in successors(E, v) : C26_tree_path(E, c)

\* the memo states in which check_TP(v, has_TP) and the calls it makes start
\* and end
RECURSIVE C26_memos(_, _, _)
RECURSIVE C26_memos_succ(_, _, _, _)
C26_memos(E, v, has_TP) ==
  {has_TP, check_TP(E, v, has_TP).memo}
  \cup (IF ~ is_reticulation(E, v) /\ v \notin DOMAIN has_TP
        THEN C26_memos_succ(E, v, sorted(successors(E, v)), has_TP)
        ELSE {})
C26_memos_succ(E, v, succ, has_TP) ==
  IF succ = <<>> THEN {}
  ELSE LET sub == check_TP(E, Head(succ), has_TP)
           memo2 == [k \in DOMAIN sub.memo \cup {v} |-> IF k = v THEN sub.res ELSE sub.memo[k]]
       IN  C26_memos(E, Head(succ), has_TP)
           \cup {memo2}
           \cup (IF sub.res THEN {} ELSE C26_memos_succ(E, v, Tail(succ), memo2))

\* the memo states of check(): the calls on the tree parents ps of the
\* reticulations, up to the first one without a tree path when not verbose
RECURSIVE C26_check_memos(_, _, _, _)
C26_check_memos(E, ps, has_TP, verb) ==
  IF ps = <<>> THEN {has_TP}
  ELSE LET t == check_TP(E, Head(ps), has_TP)
       IN  C26_memos(E, Head(ps), has_TP)
           \cup (IF ~ t.res /\ ~ verb THEN {}
                 ELSE C26_check_memos(E, Tail(ps), t.memo, verb))

C26_reachable_memos ==
  UNION {C26_check_memos(N, NearlyTreeChild_parents(N, reticulations),
                         [p \in {par[l] : l \in leaves} |-> TRUE], verbose)
         : par \in first_parents(N, leaves)}

\* C26: check_TP(v, memo) returns True if and only if there is a path from v
\* to a leaf on which no vertex, v included, is a reticulation, for every
\* vertex v and every memo state reachable during check(); a memo entry, once
\* written, is the correct answer for its vertex.
C26_check_TP_is_tree_path ==
  properties["ntc"] # None =>
    \A memo \in C26_reachable_memos :
       /\ \A v \in nodes(N) : check_TP(N, v, memo).res = C26_tree_path(N, v)
       /\ \A k \in DOMAIN memo : memo[k] = C26_tree_path(N, k)

\* check() has run on a network in which the parent of a leaf is a
\* reticulation: the memo starts with True for a vertex without a tree path
C26_memo_entry_wrong ==
  /\ properties["ntc"] # None
  /\ \E memo \in C26_reachable_memos :
        \E k \in DOMAIN memo : memo[k] /\ ~ C26_tree_path(N, k)

---------------------------------------------------------------------------
\* The order of evaluation, checked under Spec

\* get() called on the properties in the order given, starting from the
\* registry props: the outcomes, one for each choice of first parents; a call
\* that raises ends the run
RECURSIVE C27_run(_, _)
C27_run(order, props) ==
  IF order = <<>> THEN {[err |-> "", props |-> props]}
  ELSE LET short == Head(order)
       IN  IF props[short] # None THEN C27_run(Tail(order), props)
           ELSE UNION {LET c == check(short, props, N, root, reticulations, leaves,
                                      stability, verbose, par)
                       IN  IF c.err # "" THEN {[err |-> c.err, props |-> props]}
                           ELSE C27_run(Tail(order), c.props)
                       : par \in (IF short = "ntc" THEN first_parents(N, leaves)
                                  ELSE {<<>>})}

\* the order of the report: the numerical property ur, then network_types,
\* then gt
C27_report_order == <<"ur">> \o network_types \o <<"gt">>

\* the registry of a network that has just been opened
C27_new_registry == [p \in Props \cup NumProps \cup {"rsi"} |-> None]

\* the end of an order of calls on a validated network: get() has raised, or
\* every property has a value
C27_ended ==
  \/ pc = "failed" /\ err # "DegreeError"
  \/ pc = "ready" /\ \A p \in Props : properties[p] # None

\* C27: the values of all properties do not depend on the order of
\* evaluation: for every validated network and every two orders in which
\* get() is called on the properties, each property ends with the same value
\* in both.  One order is the order of the report, taken when it runs to its
\* end; the other is the order of the get actions that led to the state.
C27_order_independent ==
  C27_ended =>
    LET outs == C27_run(C27_report_order, C27_new_registry)
    IN  (\A o \in outs : o.err = "") =>
           \E o \in outs : \A p \in Props : properties[p] = o.props[p]

\* get() of cv was called first and has raised, while the calls in the order
\* of the report give every property a value, cv included
C27_cv_first_raises ==
  /\ pc = "failed" /\ err = "TypeError"
  /\ \A p \in Props : properties[p] = None
  /\ \A o \in C27_run(C27_report_order, C27_new_registry) :
        o.err = "" /\ \A p \in Props : o.props[p] # None

---------------------------------------------------------------------------
\* The implication table against the checks, checked under Spec

\* the outcomes of q's own check() on the network, from a new registry
C28_own_checks(q) ==
  {check(q, C27_new_registry, N, root, reticulations, leaves, stability, verbose, par)
     : par \in (IF q = "ntc" THEN first_parents(N, leaves) ELSE {<<>>})}

\* C28: the implication table is sound against the checks: for every
\* validated network and every boolean property P, a value given to P by
\* implication propagation from another property equals the value P's own
\* check() computes on that network.  Where P's own check raises it computes
\* no value and nothing is compared.
C28_table_sound ==
  [][\A short \in Props :
       get(short) =>
         \A q \in BoolProps \ directly_set(short) :
           (properties'[q] # properties[q] /\ \A c \in C28_own_checks(q) : c.err = "")
             => \E c \in C28_own_checks(q) : properties'[q] = c.props[q]]_vars

\* a property holds a value that no run of its own check gives
C28_value_against_check ==
  /\ pc = "ready"
  /\ \E q \in BoolProps :
       /\ properties[q] # None
       /\ \A c \in C28_own_checks(q) : c.err = "" /\ c.props[q] # properties[q]

---------------------------------------------------------------------------
\* The out-degree of reticulations, checked under SpecOpen

\* _update_infos has returned without raising
C29_accepted == pc \notin {"contract", "infos", "failed"}

\* C29: every network accepted by _update_infos has reticulations of
\* out-degree exactly 1: no vertex is in both the reticulations set and the
\* leaves set, so taking the single child of a reticulation is always defined.
C29_reticulations_have_one_child ==
  C29_accepted =>
    /\ reticulations \cap leaves = {}
    /\ \A v \in reticulations : out_degree(N, v) = 1

\* _update_infos has accepted a network with a reticulation without child
C29_reticulation_leaf_accepted ==
  /\ C29_accepted
  /\ \E v \in reticulations \cap leaves : in_degree(N, v) > 1 /\ successors(N, v) = {}

---------------------------------------------------------------------------
\* The climbs of NestingDepth, checked under SpecNum

\* C30: on every validated network of level > 1, NestingDepth.check
\* terminates: each climb started in goto_lowest_stable ends at the
\* reticulation's immediate dominator or at a taboo node, never loops forever,
\* and never asks for the parent of the root.  A climb that asks for the
\* parent of the root raises IndexError; the other two ends raise nothing.
C30_climbs_end ==
  /\ err # "IndexError"
  /\ (pc = "ready" /\ max_per_block(N, reticulations) > 1) =>
        \A out \in NestingDepth_check(impl, properties, N, dominators,
                                      stability_tree, reticulations, verbose) :
           out.err = ""

\* get() of nd has returned on a network of level 2
C30_depth_of_level_2 ==
  /\ pc = "ready"
  /\ properties["lvl"] = PyInt(2)
  /\ properties["nd"] # None
  /\ max_per_block(N, reticulations) = 2

====
